---- MODULE Spec2Model ----
(***************************************************************************)
(* Model of the browser helpers (src/runtime/helpers.js, lines 1-268) and  *)
(* of the cucumber world hooks that follow them in the same file (lines    *)
(* 270-524), together with the page object that calls clickHiddenElement.  *)
(*                                                                         *)
(* One scenario thread issues helper calls one at a time.  A helper call   *)
(* issues WebDriver commands; a command is "in flight" from the moment it  *)
(* is issued until the browser settles it.  The selenium-webdriver calls   *)
(* the helpers make (driver.wait, findElement, ...) are modelled by what   *)
(* the helpers rely on: driver.wait evaluates its condition, looks at the  *)
(* clock only after the condition has settled falsy, and polls again.      *)
(***************************************************************************)
EXTENDS Integers, Sequences, FiniteSets, TLC

\* ------------------------------------------------------------------ bounds
MaxTicks == 2        \* clock advances per helper call
MaxEvals == 2        \* evaluations of a wait condition per helper call
MaxMutations == 1    \* changes the page's own scripts make to the DOM
MaxNodes == 2        \* nodes matched by the css selector
MaxTextLen == 2      \* characters of a node's text content
MaxScenarios == 2    \* scenarios of one cucumber run

\* ------------------------------------------------------------- JS values
Undefined == [t |-> "undefined"]
Null == [t |-> "null"]
Num(n) == [t |-> "number", v |-> n]
Str(s) == [t |-> "string", v |-> s]

\* JS truthiness, as used by `a || b`, `a ? b : c` and `if (a)`.
\* A text (textToMatch, textContent) carries its characters as a sequence;
\* attribute names and values, never tested for truthiness, are atoms.
Truthy(x) ==
    CASE x.t = "number" -> x.v # 0
      [] x.t = "string" -> x.v # <<>>
      [] OTHER -> FALSE

\* JS string conversion of a value concatenated into a message
JsToString(x) ==
    CASE x.t = "undefined" -> "undefined"
      [] x.t = "null" -> "null"
      [] x.t = "number" -> ToString(x.v)
      [] OTHER -> x.v

Range(s) == {s[i] : i \in 1..Len(s)}

RemoveAt(s, i) == SubSeq(s, 1, i - 1) \o SubSeq(s, i + 1, Len(s))

\* ---------------------------------------------------------------- state
VARIABLES
    DEFAULT_TIMEOUT,  \* global.DEFAULT_TIMEOUT, the process-wide default (ms)
    pc,               \* "idle" | "running" | "done": the current helper call
    call,             \* the helper called and its arguments
    timeout,          \* the timeout handed to driver.wait
    timeoutMessage,   \* the message handed to driver.wait (its parts)
    poll,             \* driver.wait: "none" | "scheduled" | "checking"
    chains,           \* WebDriver commands in flight
    log,              \* commands issued and settled by the current call
    elapsed,          \* ms since the helper was called
    waitStart,        \* elapsed when driver.wait was called
    ticks,            \* clock advances since the helper was called
    evals,            \* evaluations of the wait condition started
    firstEvalAt,      \* elapsed when the first evaluation started (-1: none)
    result,           \* the promise the helper returned
    elPresent,        \* the selector of the attribute waits matches an element
    elAttr,           \* that element's attribute: Null or a string
    bodyPresent,      \* the document has a body element
    cookies,          \* the session holds cookies
    storage,          \* local/session storage hold entries
    mutations,        \* DOM changes made by the page so far
    nodes,            \* text content of the nodes the css selector matches
    clicked,          \* indexes of the nodes clicked, in click order
    hook,             \* cucumber hook position
    strategy,         \* global.browserTeardownStrategy
    browserName,      \* global.browserName
    noScreenshot,     \* global.noScreenshot
    driver,           \* global.driver: 0 (null) or a session id
    sessions,         \* session id -> [status, closes]: "open" | "closed"
                      \* (its window is closed) | "quit", and the number of
                      \* close() commands it was sent
    scenario,         \* [n, status]: the scenario being run
    hookLog           \* the commands the current hook has issued

callVars == <<pc, call, timeout, timeoutMessage, poll, chains, log, elapsed,
              waitStart, ticks, evals, firstEvalAt, result>>
pageVars == <<elPresent, elAttr, bodyPresent, cookies, storage, mutations>>
domVars == <<nodes, clicked>>
hookVars == <<hook, strategy, browserName, noScreenshot, driver, sessions,
              scenario, hookLog>>
vars == <<DEFAULT_TIMEOUT, callVars, pageVars, domVars, hookVars>>

NoCall == [fn |-> "none"]
Pending == [state |-> "pending"]
Fulfilled(v) == [state |-> "fulfilled", value |-> v]
Rejected(name, message) ==
    [state |-> "rejected", error |-> name, message |-> message]

\* Values of the process-wide default timeout (index.js sets it; ms)
DefaultTimeouts == {3, 1500}
\* Clock advances: a millisecond, or a second
TickSizes == {1, 1000}
\* Timeouts a caller passes to the attribute waits (waitInMilliseconds)
WaitArgs == {Undefined, Null, Num(0), Num(1), Num(2)}
\* Timeouts a caller passes to loadPage (waitInSeconds)
LoadArgs == {Undefined, Num(0), Num(1)}
AttrValues == {Null, Str("false"), Str("true")}
AttributeWaits == {"waitUntilAttributeEquals", "waitUntilAttributeExists",
                   "waitUntilAttributeDoesNotExists"}

\* A value that is a promise not yet awaited
PromiseObj == [t |-> "promise"]

\* --------------------------------------------------- helpers.js: waits
\* `var timeout = waitInMilliseconds || DEFAULT_TIMEOUT;`
ResolveTimeout_Nullish(waitInMilliseconds, dflt) ==
    IF waitInMilliseconds.t \in {"undefined", "null"}
    THEN dflt
    ELSE waitInMilliseconds.v
ResolveTimeout(waitInMilliseconds, dflt) ==
    IF Truthy(waitInMilliseconds) THEN waitInMilliseconds.v ELSE dflt

\* `var timeoutMessage = attributeName + ' ... after ' + waitInMilliseconds
\*  + ' milliseconds';` as the sequence of the concatenated parts
TimeoutMessage(fn, attributeName, attributeValue, waitInMilliseconds) ==
    CASE fn = "waitUntilAttributeEquals" ->
            <<attributeName, " does not equal ", JsToString(attributeValue),
              " after ", JsToString(waitInMilliseconds), " milliseconds">>
      [] fn = "waitUntilAttributeExists" ->
            <<attributeName, " does not exists after ",
              JsToString(waitInMilliseconds), " milliseconds">>
      [] OTHER ->
            <<attributeName, " still exists after ",
              JsToString(waitInMilliseconds), " milliseconds">>

\* The value the wait condition returns, given what `value` holds
Condition(fn, value, attributeValue) ==
    CASE fn = "waitUntilAttributeEquals" -> value = attributeValue
      [] fn = "waitUntilAttributeExists" -> value # Null
      [] OTHER -> value = Null

\* `let value = await helpers.getAttributeValue(selector, attributeName)`:
\* the command chain the condition starts, and whether the condition waits
\* for it before it returns.
GetAttributeValueCall_NotAwaited == [cmd |-> "findElement", awaited |-> FALSE]
GetAttributeValueCall == [cmd |-> "findElement", awaited |-> TRUE]

\* driver.wait(condition, timeout, message), at the instant a poll is due:
\* the condition is evaluated whatever the clock says.
WaitStep_DeadlineFirst(t, waited) ==
    IF t # 0 /\ waited >= t THEN "reject" ELSE "evaluate"
WaitStep(t, waited) == "evaluate"

\* driver.wait, once the condition has settled with `value`
WaitOutcome(value, t, waited) ==
    IF value THEN "resolve"
    ELSE IF t # 0 /\ waited >= t THEN "reject"
    ELSE "retry"

\* --------------------------------------------------- helpers.js: loadPage
\* `var timeout = (waitInSeconds) ? (waitInSeconds * 1000) : DEFAULT_TIMEOUT;`
LoadPageTimeout_Milliseconds(waitInSeconds, dflt) ==
    IF Truthy(waitInSeconds) THEN waitInSeconds.v ELSE dflt
LoadPageTimeout(waitInSeconds, dflt) ==
    IF Truthy(waitInSeconds) THEN waitInSeconds.v * 1000 ELSE dflt

\* `await driver.get(url)`
DriverGetCall == [cmd |-> "get", awaited |-> TRUE]

\* `driver.wait(until.elementLocated(by.css('body')), timeout)`: the chain
\* its condition starts
ElementLocatedCall == [cmd |-> "findElements", awaited |-> TRUE]

\* ------------------------------------- helpers.js: cookies and storages
\* `await helpers.clearCookies()` -> `await driver.manage().deleteAllCookies()`
ClearCookiesCall_NotAwaited == [cmd |-> "deleteAllCookies", awaited |-> FALSE]
ClearCookiesCall == [cmd |-> "deleteAllCookies", awaited |-> TRUE]

\* `await helpers.clearStorages()` -> `await driver.executeScript(...)`
ClearStoragesCall == [cmd |-> "executeScript", awaited |-> TRUE]

\* ------------------------------------------------------- the helper calls
CallReset ==
    /\ pc' = "idle"
    /\ call' = NoCall
    /\ timeout' = 0
    /\ timeoutMessage' = <<>>
    /\ poll' = "none"
    /\ chains' = <<>>
    /\ log' = <<>>
    /\ elapsed' = 0
    /\ waitStart' = 0
    /\ ticks' = 0
    /\ evals' = 0
    /\ firstEvalAt' = -1
    /\ result' = Pending

\* The promise of the helper settles
Settle(r) ==
    /\ pc' = "done"
    /\ poll' = "none"
    /\ result' = r

\* driver.wait has the value of its condition
Conclude(value) ==
    LET o == WaitOutcome(value, timeout, elapsed - waitStart) IN
    CASE o = "resolve" -> Settle(Fulfilled(TRUE))
      [] o = "reject" -> Settle(Rejected("TimeoutError", timeoutMessage))
      [] OTHER -> /\ poll' = "scheduled"
                  /\ UNCHANGED <<pc, result>>

\* waitUntilAttributeEquals / Exists / DoesNotExists (lines 136-212), up to
\* the call of driver.wait
CallAttributeWait(fn, waitInMilliseconds) ==
    /\ pc = "idle"
    /\ pc' = "running"
    /\ call' = [fn |-> fn, attributeName |-> "data-busy",
                attributeValue |-> Str("false"), wait |-> waitInMilliseconds]
    /\ timeout' = ResolveTimeout(waitInMilliseconds, DEFAULT_TIMEOUT)
    /\ timeoutMessage' = TimeoutMessage(fn, "data-busy", Str("false"),
                                        waitInMilliseconds)
    /\ poll' = "scheduled"
    /\ waitStart' = elapsed
    /\ UNCHANGED <<chains, log, elapsed, ticks, evals, firstEvalAt, result>>
    /\ UNCHANGED <<DEFAULT_TIMEOUT, pageVars, domVars, hookVars>>

\* The chain the condition of the running wait starts
ConditionCall ==
    IF call.fn = "loadPage" THEN ElementLocatedCall ELSE GetAttributeValueCall

\* driver.wait polls: the condition function is called
StartCheck ==
    /\ pc = "running"
    /\ poll = "scheduled"
    /\ evals < MaxEvals
    /\ IF WaitStep(timeout, elapsed - waitStart) = "evaluate"
       THEN LET c == ConditionCall IN
            /\ evals' = evals + 1
            /\ firstEvalAt' = IF evals = 0 THEN elapsed ELSE firstEvalAt
            /\ chains' = Append(chains, c)
            /\ log' = Append(log, <<"issue", c.cmd>>)
            /\ IF c.awaited
               THEN /\ poll' = "checking"
                    /\ UNCHANGED <<pc, result>>
               ELSE \* the condition compares the promise itself
                    Conclude(Condition(call.fn, PromiseObj, call.attributeValue))
       ELSE /\ Settle(Rejected("TimeoutError", timeoutMessage))
            /\ UNCHANGED <<evals, firstEvalAt, chains, log>>
    /\ UNCHANGED <<call, timeout, timeoutMessage, elapsed, waitStart, ticks>>
    /\ UNCHANGED <<DEFAULT_TIMEOUT, pageVars, domVars, hookVars>>

\* getAttributeValue (lines 31-36): driver.findElement settles; on an
\* element, el.getAttribute is issued; without one findElement rejects.
FindElementSettles(i) ==
    /\ i \in 1..Len(chains)
    /\ chains[i].cmd = "findElement"
    /\ IF elPresent
       THEN /\ chains' = [chains EXCEPT ![i].cmd = "getAttribute"]
            /\ log' = log \o <<<<"ok", "findElement">>,
                               <<"issue", "getAttribute">>>>
            /\ UNCHANGED <<pc, poll, result>>
       ELSE /\ chains' = RemoveAt(chains, i)
            /\ log' = Append(log, <<"fail", "findElement">>)
            /\ IF chains[i].awaited
               THEN Settle(Rejected("NoSuchElementError", <<"findElement">>))
               ELSE UNCHANGED <<pc, poll, result>>
    /\ UNCHANGED <<call, timeout, timeoutMessage, elapsed, waitStart, ticks,
                   evals, firstEvalAt>>
    /\ UNCHANGED <<DEFAULT_TIMEOUT, pageVars, domVars, hookVars>>

\* el.getAttribute settles: the attribute's value, or null without it
GetAttributeSettles(i) ==
    /\ i \in 1..Len(chains)
    /\ chains[i].cmd = "getAttribute"
    /\ chains' = RemoveAt(chains, i)
    /\ IF elPresent
       THEN /\ log' = Append(log, <<"ok", "getAttribute">>)
            /\ IF chains[i].awaited
               THEN Conclude(Condition(call.fn, elAttr, call.attributeValue))
               ELSE UNCHANGED <<pc, poll, result>>
       ELSE /\ log' = Append(log, <<"fail", "getAttribute">>)
            /\ IF chains[i].awaited
               THEN Settle(Rejected("StaleElementReferenceError",
                                    <<"getAttribute">>))
               ELSE UNCHANGED <<pc, poll, result>>
    /\ UNCHANGED <<call, timeout, timeoutMessage, elapsed, waitStart, ticks,
                   evals, firstEvalAt>>
    /\ UNCHANGED <<DEFAULT_TIMEOUT, pageVars, domVars, hookVars>>

\* loadPage (lines 11-21), up to the first await
CallLoadPage(waitInSeconds) ==
    /\ pc = "idle"
    /\ pc' = "running"
    /\ call' = [fn |-> "loadPage", wait |-> waitInSeconds]
    /\ timeout' = LoadPageTimeout(waitInSeconds, DEFAULT_TIMEOUT)
    /\ chains' = <<DriverGetCall>>
    /\ log' = <<<<"issue", "get">>>>
    /\ poll' = IF DriverGetCall.awaited THEN "none" ELSE "scheduled"
    /\ waitStart' = elapsed
    /\ UNCHANGED <<timeoutMessage, elapsed, ticks, evals, firstEvalAt, result>>
    /\ UNCHANGED <<DEFAULT_TIMEOUT, pageVars, domVars, hookVars>>

\* driver.get settles: the page is loaded (it sets cookies and storage
\* entries), or the navigation fails; on success loadPage calls driver.wait
DriverGetSettles(i, ok, body) ==
    /\ i \in 1..Len(chains)
    /\ chains[i].cmd = "get"
    /\ chains' = RemoveAt(chains, i)
    /\ IF ok
       THEN /\ log' = Append(log, <<"ok", "get">>)
            /\ bodyPresent' = body
            /\ cookies' = TRUE
            /\ storage' = TRUE
            /\ IF chains[i].awaited
               THEN /\ poll' = "scheduled"
                    /\ waitStart' = elapsed
                    /\ UNCHANGED <<pc, result>>
               ELSE UNCHANGED <<pc, poll, result, waitStart>>
       ELSE /\ log' = Append(log, <<"fail", "get">>)
            /\ UNCHANGED <<bodyPresent, cookies, storage, waitStart>>
            /\ IF chains[i].awaited
               THEN Settle(Rejected("WebDriverError", <<"get">>))
               ELSE UNCHANGED <<pc, poll, result>>
    /\ UNCHANGED <<call, timeout, timeoutMessage, elapsed, ticks, evals,
                   firstEvalAt>>
    /\ UNCHANGED <<DEFAULT_TIMEOUT, elPresent, elAttr, mutations, domVars,
                   hookVars>>

\* until.elementLocated(by.css('body')): findElements settles, and the
\* condition's value is its first element
FindElementsSettles(i) ==
    /\ i \in 1..Len(chains)
    /\ chains[i].cmd = "findElements"
    /\ chains' = RemoveAt(chains, i)
    /\ log' = Append(log, <<"ok", "findElements">>)
    /\ Conclude(bodyPresent)
    /\ UNCHANGED <<call, timeout, timeoutMessage, elapsed, waitStart, ticks,
                   evals, firstEvalAt>>
    /\ UNCHANGED <<DEFAULT_TIMEOUT, pageVars, domVars, hookVars>>

\* clearCookiesAndStorages (lines 264-267), up to the first await
CallClearCookiesAndStorages ==
    /\ pc = "idle"
    /\ pc' = "running"
    /\ call' = [fn |-> "clearCookiesAndStorages"]
    /\ IF ClearCookiesCall.awaited
       THEN /\ chains' = <<ClearCookiesCall>>
            /\ log' = <<<<"issue", "deleteAllCookies">>>>
       ELSE /\ chains' = <<ClearCookiesCall, ClearStoragesCall>>
            /\ log' = <<<<"issue", "deleteAllCookies">>,
                        <<"issue", "executeScript">>>>
    /\ UNCHANGED <<timeout, timeoutMessage, poll, elapsed, waitStart, ticks,
                   evals, firstEvalAt, result>>
    /\ UNCHANGED <<DEFAULT_TIMEOUT, pageVars, domVars, hookVars>>

\* clearCookies (lines 256-258): deleteAllCookies settles; on success
\* clearCookiesAndStorages goes on to clearStorages (lines 260-262)
DeleteAllCookiesSettles(i, ok) ==
    /\ i \in 1..Len(chains)
    /\ chains[i].cmd = "deleteAllCookies"
    /\ IF ok
       THEN /\ cookies' = FALSE
            /\ IF chains[i].awaited
               THEN /\ chains' = [chains EXCEPT ![i] = ClearStoragesCall]
                    /\ log' = log \o <<<<"ok", "deleteAllCookies">>,
                                       <<"issue", "executeScript">>>>
               ELSE /\ chains' = RemoveAt(chains, i)
                    /\ log' = Append(log, <<"ok", "deleteAllCookies">>)
            /\ UNCHANGED <<pc, poll, result>>
       ELSE /\ chains' = RemoveAt(chains, i)
            /\ log' = Append(log, <<"fail", "deleteAllCookies">>)
            /\ UNCHANGED cookies
            /\ IF chains[i].awaited
               THEN Settle(Rejected("WebDriverError", <<"deleteAllCookies">>))
               ELSE UNCHANGED <<pc, poll, result>>
    /\ UNCHANGED <<call, timeout, timeoutMessage, elapsed, waitStart, ticks,
                   evals, firstEvalAt>>
    /\ UNCHANGED <<DEFAULT_TIMEOUT, elPresent, elAttr, bodyPresent, storage,
                   mutations, domVars, hookVars>>

\* the storage-clearing script settles
ExecuteScriptSettles(i, ok) ==
    /\ i \in 1..Len(chains)
    /\ chains[i].cmd = "executeScript"
    /\ chains' = RemoveAt(chains, i)
    /\ IF ok
       THEN /\ storage' = FALSE
            /\ log' = Append(log, <<"ok", "executeScript">>)
            /\ Settle(Fulfilled(Undefined))
       ELSE /\ UNCHANGED storage
            /\ log' = Append(log, <<"fail", "executeScript">>)
            /\ Settle(Rejected("WebDriverError", <<"executeScript">>))
    /\ UNCHANGED <<call, timeout, timeoutMessage, elapsed, waitStart, ticks,
                   evals, firstEvalAt>>
    /\ UNCHANGED <<DEFAULT_TIMEOUT, elPresent, elAttr, bodyPresent, cookies,
                   mutations, domVars, hookVars>>

\* Time passes while a helper call is pending
Tick(d) ==
    /\ pc = "running"
    /\ ticks < MaxTicks
    /\ ticks' = ticks + 1
    /\ elapsed' = elapsed + d
    /\ UNCHANGED <<pc, call, timeout, timeoutMessage, poll, chains, log,
                   waitStart, evals, firstEvalAt, result>>
    /\ UNCHANGED <<DEFAULT_TIMEOUT, pageVars, domVars, hookVars>>

\* The page's own scripts add, remove or change the watched element or its
\* attribute while an attribute wait is pending
PageMutates(present, attr) ==
    /\ pc = "running"
    /\ call.fn \in AttributeWaits
    /\ mutations < MaxMutations
    /\ <<present, attr>> # <<elPresent, elAttr>>
    /\ present \/ attr = Null
    /\ mutations' = mutations + 1
    /\ elPresent' = present
    /\ elAttr' = attr
    /\ UNCHANGED <<bodyPresent, cookies, storage>>
    /\ UNCHANGED <<DEFAULT_TIMEOUT, callVars, domVars, hookVars>>

\* The document's body appears while loadPage waits for it
BodyAppears ==
    /\ pc = "running"
    /\ call.fn = "loadPage"
    /\ poll # "none"
    /\ ~bodyPresent
    /\ mutations < MaxMutations
    /\ mutations' = mutations + 1
    /\ bodyPresent' = TRUE
    /\ UNCHANGED <<elPresent, elAttr, cookies, storage>>
    /\ UNCHANGED <<DEFAULT_TIMEOUT, callVars, domVars, hookVars>>

\* The caller has the helper's result and goes on
Finish ==
    /\ pc = "done"
    /\ CallReset
    /\ clicked' = <<>>
    /\ UNCHANGED <<DEFAULT_TIMEOUT, pageVars, nodes, hookVars>>

HookIdle ==
    /\ hook = "steps"
    /\ strategy = "always"
    /\ browserName = "chrome"
    /\ noScreenshot = FALSE
    /\ driver = 1
    /\ sessions = <<[status |-> "open", closes |-> 0]>>
    /\ scenario = [n |-> 1, status |-> "running"]
    /\ hookLog = <<>>

CallIdle ==
    /\ pc = "idle"
    /\ call = NoCall
    /\ timeout = 0
    /\ timeoutMessage = <<>>
    /\ poll = "none"
    /\ chains = <<>>
    /\ log = <<>>
    /\ elapsed = 0
    /\ waitStart = 0
    /\ ticks = 0
    /\ evals = 0
    /\ firstEvalAt = -1
    /\ result = Pending

\* A scenario's step is running against an open session on a page whose
\* watched element is present or not, with or without the attribute
Init ==
    /\ DEFAULT_TIMEOUT \in DefaultTimeouts
    /\ CallIdle
    /\ elPresent \in BOOLEAN
    /\ elAttr \in AttrValues
    /\ elPresent \/ elAttr = Null
    /\ bodyPresent = TRUE
    /\ cookies = FALSE
    /\ storage = FALSE
    /\ mutations = 0
    /\ nodes = <<>>
    /\ clicked = <<>>
    /\ HookIdle

Next ==
    \/ \E fn \in AttributeWaits, w \in WaitArgs : CallAttributeWait(fn, w)
    \/ StartCheck
    \/ \E i \in 1..Len(chains) : FindElementSettles(i)
    \/ \E i \in 1..Len(chains) : GetAttributeSettles(i)
    \/ \E w \in LoadArgs : CallLoadPage(w)
    \/ \E i \in 1..Len(chains), ok \in BOOLEAN, body \in BOOLEAN :
          DriverGetSettles(i, ok, body)
    \/ \E i \in 1..Len(chains) : FindElementsSettles(i)
    \/ CallClearCookiesAndStorages
    \/ \E i \in 1..Len(chains), ok \in BOOLEAN : DeleteAllCookiesSettles(i, ok)
    \/ \E i \in 1..Len(chains), ok \in BOOLEAN : ExecuteScriptSettles(i, ok)
    \/ \E d \in TickSizes : Tick(d)
    \/ \E present \in BOOLEAN, attr \in AttrValues : PageMutates(present, attr)
    \/ BodyAppears
    \/ Finish

Spec == Init /\ [][Next]_vars

\* ------------------------------------------ helpers.js: scripts in the DOM
Chars == {"a", " "}
Texts == UNION {[1..n -> Chars] : n \in 0..MaxTextLen}
NodeLists == UNION {[1..n -> Texts] : n \in 0..MaxNodes}
TextArgs == {Undefined} \cup {Str(t) : t \in Texts}

Elem(i) == [t |-> "element", v |-> i]
Array(s) == [t |-> "array", v |-> s]

\* String.prototype.trim
RECURSIVE TrimLeft(_)
TrimLeft(s) ==
    IF s # <<>> /\ Head(s) = " " THEN TrimLeft(Tail(s)) ELSE s
RECURSIVE TrimRight(_)
TrimRight(s) ==
    IF s # <<>> /\ s[Len(s)] = " "
    THEN TrimRight(SubSeq(s, 1, Len(s) - 1))
    ELSE s
Trim(s) == TrimRight(TrimLeft(s))

\* An argument of a script as the script receives it: undefined arrives as
\* null
ScriptArg(x) == IF x.t = "undefined" THEN Null ELSE x

\* clickElementInDom (lines 98-120): the indexes of the elements it clicks,
\* in the order of the loop, from element i on
RECURSIVE ClickElementInDom_Trimmed(_, _, _)
ClickElementInDom_Trimmed(elements, content, i) ==
    IF i > Len(elements) THEN <<>>
    ELSE (IF Truthy(content)
          THEN (IF Trim(elements[i]) = Trim(content.v) THEN <<i>> ELSE <<>>)
          ELSE <<i>>)
         \o ClickElementInDom_Trimmed(elements, content, i + 1)
RECURSIVE ClickElementInDom(_, _, _)
ClickElementInDom(elements, content, i) ==
    IF i > Len(elements) THEN <<>>
    ELSE (IF Truthy(content)
          THEN (IF elements[i] = content.v THEN <<i>> ELSE <<>>)
          ELSE <<i>>)
         \o ClickElementInDom(elements, content, i + 1)

\* findElementsContainingText (lines 50-67): the indexes of the elements it
\* returns, from element i on
RECURSIVE FindElementsContainingText(_, _, _)
FindElementsContainingText(elements, content, i) ==
    IF i > Len(elements) THEN <<>>
    ELSE (IF Trim(elements[i]) = Trim(content.v) THEN <<i>> ELSE <<>>)
         \o FindElementsContainingText(elements, content, i + 1)

\* `return driver.findElements(by.js(clickElementInDom, ...))` (line 123):
\* the helper returns the promise of the command
ClickScriptCall == [cmd |-> "clickElementInDom", awaited |-> TRUE]

\* `return driver.findElements(by.js(findElementsContainingText, ...))`
\* (line 70)
FindScriptCall == [cmd |-> "findElementsContainingText", awaited |-> TRUE]

\* `let elements = helpers.getElementsContainingText(...)` (line 83): the
\* promise is not awaited
GetElementsCall == [cmd |-> "findElementsContainingText", awaited |-> FALSE]

\* `elements[0]` (line 84)
FirstOf(elements) ==
    IF elements.t = "array" /\ elements.v # <<>>
    THEN Elem(elements.v[1])
    ELSE Undefined

\* driver.findElements on what a by.js script returned: its elements, or an
\* empty list when it returned none
FoundElements(indexes) == Array(indexes)

\* clickHiddenElement (lines 95-124), also as called by clickNavigationItem
\* and clickProductItem of the page object
CallClickHiddenElement(textToMatch) ==
    /\ pc = "idle"
    /\ pc' = "running"
    /\ call' = [fn |-> "clickHiddenElement", textToMatch |-> textToMatch]
    /\ chains' = <<ClickScriptCall>>
    /\ log' = <<<<"issue", "clickElementInDom">>>>
    /\ UNCHANGED <<timeout, timeoutMessage, poll, elapsed, waitStart, ticks,
                   evals, firstEvalAt, result>>
    /\ UNCHANGED <<DEFAULT_TIMEOUT, pageVars, domVars, hookVars>>

\* the click script has run in the document; it returns nothing
ClickScriptSettles(i) ==
    /\ i \in 1..Len(chains)
    /\ chains[i].cmd = "clickElementInDom"
    /\ chains' = RemoveAt(chains, i)
    /\ log' = Append(log, <<"ok", "clickElementInDom">>)
    /\ clicked' = clicked
                  \o ClickElementInDom(nodes, ScriptArg(call.textToMatch), 1)
    /\ Settle(Fulfilled(FoundElements(<<>>)))
    /\ UNCHANGED <<call, timeout, timeoutMessage, elapsed, waitStart, ticks,
                   evals, firstEvalAt>>
    /\ UNCHANGED <<DEFAULT_TIMEOUT, pageVars, nodes, hookVars>>

\* getElementsContainingText (lines 47-71)
CallGetElementsContainingText(textToMatch) ==
    /\ pc = "idle"
    /\ pc' = "running"
    /\ call' = [fn |-> "getElementsContainingText",
                textToMatch |-> textToMatch]
    /\ chains' = <<FindScriptCall>>
    /\ log' = <<<<"issue", "findElementsContainingText">>>>
    /\ UNCHANGED <<timeout, timeoutMessage, poll, elapsed, waitStart, ticks,
                   evals, firstEvalAt, result>>
    /\ UNCHANGED <<DEFAULT_TIMEOUT, pageVars, domVars, hookVars>>

\* getFirstElementContainingText (lines 81-85): it calls
\* getElementsContainingText and returns element 0 of what it holds
CallGetFirstElementContainingText(textToMatch) ==
    /\ pc = "idle"
    /\ call' = [fn |-> "getFirstElementContainingText",
                textToMatch |-> textToMatch]
    /\ chains' = <<GetElementsCall>>
    /\ log' = <<<<"issue", "findElementsContainingText">>>>
    /\ IF GetElementsCall.awaited
       THEN /\ pc' = "running"
            /\ UNCHANGED <<poll, result>>
       ELSE Settle(Fulfilled(FirstOf(PromiseObj)))
    /\ UNCHANGED <<timeout, timeoutMessage, elapsed, waitStart, ticks, evals,
                   firstEvalAt>>
    /\ UNCHANGED <<DEFAULT_TIMEOUT, pageVars, domVars, hookVars>>

\* the find script has run in the document
FindScriptSettles(i) ==
    /\ i \in 1..Len(chains)
    /\ chains[i].cmd = "findElementsContainingText"
    /\ chains' = RemoveAt(chains, i)
    /\ log' = Append(log, <<"ok", "findElementsContainingText">>)
    /\ LET elements == FoundElements(
               FindElementsContainingText(nodes, call.textToMatch, 1)) IN
       IF ~chains[i].awaited
       THEN UNCHANGED <<pc, poll, result>>
       ELSE IF call.fn = "getElementsContainingText"
       THEN Settle(Fulfilled(elements))
       ELSE Settle(Fulfilled(FirstOf(elements)))
    /\ UNCHANGED <<call, timeout, timeoutMessage, elapsed, waitStart, ticks,
                   evals, firstEvalAt>>
    /\ UNCHANGED <<DEFAULT_TIMEOUT, pageVars, domVars, hookVars>>

\* A step runs against an open session on a page whose selector matches any
\* list of nodes
InitDom ==
    /\ DEFAULT_TIMEOUT \in DefaultTimeouts
    /\ CallIdle
    /\ elPresent = FALSE
    /\ elAttr = Null
    /\ bodyPresent = TRUE
    /\ cookies = FALSE
    /\ storage = FALSE
    /\ mutations = 0
    /\ nodes \in NodeLists
    /\ clicked = <<>>
    /\ HookIdle

NextDom ==
    \/ \E text \in TextArgs : CallClickHiddenElement(text)
    \/ \E i \in 1..Len(chains) : ClickScriptSettles(i)
    \/ \E text \in TextArgs \ {Undefined} : CallGetElementsContainingText(text)
    \/ \E text \in TextArgs \ {Undefined} :
          CallGetFirstElementContainingText(text)
    \/ \E i \in 1..Len(chains) : FindScriptSettles(i)
    \/ Finish

SpecDom == InitDom /\ [][NextDom]_vars

\* ------------------------------------------------- world hooks (434-504)
\* Values of browserTeardownStrategy; "unset" stands for undefined and for
\* any value the switch of teardownBrowser does not name
Strategies == {"always", "clear", "none", "unset"}
BrowserNames == {"chrome", "firefox"}

SessionOpen == driver # 0 /\ sessions[driver].status = "open"

\* teardownBrowser (lines 443-452): what the switch selects
TeardownPlan_ClearFallsThrough(s) ==
    CASE s = "none" -> "nothing"
      [] OTHER -> "close"
TeardownPlan(s) ==
    CASE s = "none" -> "nothing"
      [] s = "clear" -> "clear"
      [] OTHER -> "close"

\* Before (line 466): whether a new driver is created
NeedsDriver(d, s) == d = 0 \/ s = "always"

\* After (line 478): whether the screenshot branch is taken
TakesScreenshot(status, noShot) == status = "failed" /\ ~noShot

\* closeBrowser (line 437): whether driver.quit() follows driver.close()
QuitsAfterClose(name) == name # "firefox"

\* AfterAll (line 502): whether the browser is closed at the end of the run
ClosesAtEnd(s) == s # "always"

\* The session after close() of its last window: firefox ends the session
AfterClose(name) == IF name = "firefox" THEN "quit" ELSE "closed"

HookStep(next, entry) ==
    /\ hook' = next
    /\ hookLog' = Append(hookLog, entry)

\* BeforeAll (lines 459-461 and 494-496): importSupportObjects, registered
\* twice
BeforeAll ==
    /\ hook \in {"beforeAll1", "beforeAll2"}
    /\ hook' = IF hook = "beforeAll1" THEN "beforeAll2" ELSE "before"
    /\ UNCHANGED <<strategy, browserName, noScreenshot, driver, sessions,
                   scenario, hookLog>>
    /\ UNCHANGED <<DEFAULT_TIMEOUT, callVars, pageVars, domVars>>

\* Before (lines 465-473); no eyes key is configured, so eyes stays null
Before ==
    /\ hook = "before"
    /\ scenario.n < MaxScenarios
    /\ scenario' = [n |-> scenario.n + 1, status |-> "running"]
    /\ IF NeedsDriver(driver, strategy)
       THEN /\ sessions' = Append(sessions, [status |-> "open", closes |-> 0])
            /\ driver' = Len(sessions) + 1
       ELSE UNCHANGED <<driver, sessions>>
    /\ hook' = "steps"
    /\ hookLog' = <<>>
    /\ UNCHANGED <<strategy, browserName, noScreenshot>>
    /\ UNCHANGED <<DEFAULT_TIMEOUT, callVars, pageVars, domVars>>

\* The steps of the scenario have run
ScenarioEnds(status) ==
    /\ hook = "steps"
    /\ scenario' = [scenario EXCEPT !.status = status]
    /\ hook' = "after"
    /\ hookLog' = <<>>
    /\ UNCHANGED <<strategy, browserName, noScreenshot, driver, sessions>>
    /\ UNCHANGED <<DEFAULT_TIMEOUT, callVars, pageVars, domVars>>

\* After (lines 478-481): the screenshot of a failed scenario
AfterTakeScreenshot ==
    /\ hook = "after"
    /\ TakesScreenshot(scenario.status, noScreenshot)
    /\ IF SessionOpen
       THEN HookStep("teardown", <<"takeScreenshot", driver, TRUE>>)
       ELSE HookStep("afterFailed", <<"takeScreenshot", driver, FALSE>>)
    /\ UNCHANGED <<strategy, browserName, noScreenshot, driver, sessions,
                   scenario>>
    /\ UNCHANGED <<DEFAULT_TIMEOUT, callVars, pageVars, domVars>>

\* After (lines 482 and 488) calls teardownBrowser (lines 443-452)
AfterTeardownBrowser ==
    /\ \/ hook = "teardown"
       \/ hook = "after" /\ ~TakesScreenshot(scenario.status, noScreenshot)
    /\ LET plan == TeardownPlan(strategy) IN
       hook' = CASE plan = "nothing" -> "afterDone"
                 [] plan = "clear" -> "clearCookies"
                 [] OTHER -> "close"
    /\ UNCHANGED <<strategy, browserName, noScreenshot, driver, sessions,
                   scenario, hookLog>>
    /\ UNCHANGED <<DEFAULT_TIMEOUT, callVars, pageVars, domVars>>

\* clearCookiesAndStorages (lines 264-267) as teardownBrowser calls it:
\* clearCookies (lines 256-258)
TeardownClearCookies ==
    /\ hook = "clearCookies"
    /\ IF SessionOpen
       THEN /\ HookStep("clearStorages", <<"deleteAllCookies", driver, TRUE>>)
            /\ cookies' = FALSE
       ELSE /\ HookStep("afterFailed", <<"deleteAllCookies", driver, FALSE>>)
            /\ UNCHANGED cookies
    /\ UNCHANGED <<strategy, browserName, noScreenshot, driver, sessions,
                   scenario>>
    /\ UNCHANGED <<DEFAULT_TIMEOUT, callVars, elPresent, elAttr, bodyPresent,
                   storage, mutations, domVars>>

\* clearStorages (lines 260-262)
TeardownClearStorages ==
    /\ hook = "clearStorages"
    /\ IF SessionOpen
       THEN /\ HookStep("afterDone", <<"executeScript", driver, TRUE>>)
            /\ storage' = FALSE
       ELSE /\ HookStep("afterFailed", <<"executeScript", driver, FALSE>>)
            /\ UNCHANGED storage
    /\ UNCHANGED <<strategy, browserName, noScreenshot, driver, sessions,
                   scenario>>
    /\ UNCHANGED <<DEFAULT_TIMEOUT, callVars, elPresent, elAttr, bodyPresent,
                   cookies, mutations, domVars>>

\* closeBrowser (lines 434-436): driver.close(), from After or AfterAll
CloseBrowserClose ==
    /\ hook \in {"close", "afterAll:close"}
    /\ LET done == IF hook = "close" THEN "afterDone" ELSE "end"
           failed == IF hook = "close" THEN "afterFailed" ELSE "endFailed"
           quit == IF hook = "close" THEN "quit" ELSE "afterAll:quit"
       IN
       IF driver = 0
       THEN /\ HookStep(failed, <<"close", driver, FALSE>>)
            /\ UNCHANGED sessions
       ELSE /\ sessions' =
                  [sessions EXCEPT
                     ![driver].closes = @ + 1,
                     ![driver].status =
                        IF @ = "open" THEN AfterClose(browserName) ELSE @]
            /\ IF ~SessionOpen
               THEN HookStep(failed, <<"close", driver, FALSE>>)
               ELSE IF QuitsAfterClose(browserName)
               THEN HookStep(quit, <<"close", driver, TRUE>>)
               ELSE HookStep(done, <<"close", driver, TRUE>>)
    /\ UNCHANGED <<strategy, browserName, noScreenshot, driver, scenario>>
    /\ UNCHANGED <<DEFAULT_TIMEOUT, callVars, pageVars, domVars>>

\* closeBrowser (lines 437-439): driver.quit()
CloseBrowserQuit ==
    /\ hook \in {"quit", "afterAll:quit"}
    /\ LET done == IF hook = "quit" THEN "afterDone" ELSE "end"
           failed == IF hook = "quit" THEN "afterFailed" ELSE "endFailed"
       IN
       IF sessions[driver].status = "quit"
       THEN /\ HookStep(failed, <<"quit", driver, FALSE>>)
            /\ UNCHANGED sessions
       ELSE /\ HookStep(done, <<"quit", driver, TRUE>>)
            /\ sessions' = [sessions EXCEPT ![driver].status = "quit"]
    /\ UNCHANGED <<strategy, browserName, noScreenshot, driver, scenario>>
    /\ UNCHANGED <<DEFAULT_TIMEOUT, callVars, pageVars, domVars>>

\* The After hook has ended (with or without an error): cucumber goes on
AfterEnds ==
    /\ hook \in {"afterDone", "afterFailed"}
    /\ hook' = "before"
    /\ hookLog' = <<>>
    /\ UNCHANGED <<strategy, browserName, noScreenshot, driver, sessions,
                   scenario>>
    /\ UNCHANGED <<DEFAULT_TIMEOUT, callVars, pageVars, domVars>>

\* AfterAll (lines 500-504), once no scenario is left to run
AfterAll ==
    /\ hook = "before"
    /\ hook' = IF ClosesAtEnd(strategy) THEN "afterAll:close" ELSE "end"
    /\ hookLog' = <<>>
    /\ UNCHANGED <<strategy, browserName, noScreenshot, driver, sessions,
                   scenario>>
    /\ UNCHANGED <<DEFAULT_TIMEOUT, callVars, pageVars, domVars>>

\* A cucumber run starts: nothing is created yet
InitHooks ==
    /\ DEFAULT_TIMEOUT \in DefaultTimeouts
    /\ CallIdle
    /\ elPresent = FALSE
    /\ elAttr = Null
    /\ bodyPresent = TRUE
    /\ cookies = TRUE
    /\ storage = TRUE
    /\ mutations = 0
    /\ nodes = <<>>
    /\ clicked = <<>>
    /\ hook = "beforeAll1"
    /\ strategy \in Strategies
    /\ browserName \in BrowserNames
    /\ noScreenshot \in BOOLEAN
    /\ driver = 0
    /\ sessions = <<>>
    /\ scenario = [n |-> 0, status |-> "none"]
    /\ hookLog = <<>>

NextHooks ==
    \/ BeforeAll
    \/ Before
    \/ \E status \in {"passed", "failed"} : ScenarioEnds(status)
    \/ AfterTakeScreenshot
    \/ AfterTeardownBrowser
    \/ TeardownClearCookies
    \/ TeardownClearStorages
    \/ CloseBrowserClose
    \/ CloseBrowserQuit
    \/ AfterEnds
    \/ AfterAll

SpecHooks == InitHooks /\ [][NextHooks]_vars

\* ----------------------------------------------------------------- claims
TimedOut == result.state = "rejected" /\ result.error = "TimeoutError"

Logged(event, cmd) == <<event, cmd>> \in Range(log)

InFlight(cmd) == \E i \in 1..Len(chains) : chains[i].cmd = cmd

C2_TimeoutMessageHoldsAppliedTimeout ==
    (call.fn \in AttributeWaits /\ TimedOut)
    => /\ call.attributeName \in Range(result.message)
       /\ ToString(timeout) \in Range(result.message)

\* C3: within one attribute wait at most one check is in flight, and a new
\* check is due only when the previous one has settled (no command of it is
\* still in flight).
C3_ChecksAreSequential ==
    call.fn \in AttributeWaits
    => /\ Len(chains) <= 1
       /\ poll = "scheduled" => chains = <<>>
       /\ pc = "done" => chains = <<>>

\* a second check is in flight, on its getAttribute
C3_SecondCheckInFlight ==
    /\ call.fn \in AttributeWaits
    /\ evals = 2
    /\ InFlight("getAttribute")

\* C4: an attribute wait that rejects with a timeout has evaluated its
\* condition at least once, also when the deadline had passed before the
\* first evaluation.
C4_EvaluatedBeforeTimeout ==
    (call.fn \in AttributeWaits /\ TimedOut) => evals >= 1

\* a wait timed out after one evaluation that started past the deadline
C4_LateFirstEvaluationTimesOut ==
    /\ call.fn \in AttributeWaits
    /\ TimedOut
    /\ evals = 1
    /\ firstEvalAt >= timeout

\* C6 as claimed: loadPage starts the wait for the body only after the
\* navigation has completed, and bounds it by the caller's timeout taken as
\* milliseconds when one is given, by the default otherwise.
LoadPageWaitStarted == poll # "none" \/ Logged("issue", "findElements")

LoadPageWaitsAfterNavigation ==
    LoadPageWaitStarted => Logged("ok", "get") /\ ~InFlight("get")

C6_LoadPageTimeoutInMilliseconds ==
    call.fn = "loadPage"
    => /\ LoadPageWaitsAfterNavigation
       /\ timeout = IF Truthy(call.wait) THEN call.wait.v ELSE DEFAULT_TIMEOUT
       /\ TimedOut => elapsed - waitStart >= timeout

\* C6 as amended: loadPage starts the wait for the body only after the
\* navigation has completed, and bounds it by the caller's timeout taken as
\* seconds (times 1000, in ms) when a non-zero one is given, by the default
\* when it is omitted or 0.
C6_LoadPageTimeoutInSeconds ==
    call.fn = "loadPage"
    => /\ LoadPageWaitsAfterNavigation
       /\ timeout = IF call.wait \in {Undefined, Num(0)}
                    THEN DEFAULT_TIMEOUT
                    ELSE 1000 * call.wait.v
       /\ TimedOut => elapsed - waitStart >= timeout

\* loadPage(url, 1) navigated and its wait timed out after 1000 ms
C6_OneSecondWaitTimedOut ==
    /\ call.fn = "loadPage"
    /\ call.wait = Num(1)
    /\ Logged("ok", "get")
    /\ TimedOut
    /\ timeout = 1000

\* C7: clearCookiesAndStorages issues the storage clear only after the cookie
\* deletion has settled successfully, never while it is in flight; when the
\* cookie deletion fails the storage clear is never issued and the call
\* rejects with that failure.
C7_CookiesThenStorages ==
    call.fn = "clearCookiesAndStorages"
    => /\ \A i \in 1..Len(log) :
              log[i] = <<"issue", "executeScript">>
              => \E j \in 1..(i - 1) : log[j] = <<"ok", "deleteAllCookies">>
       /\ ~(InFlight("deleteAllCookies") /\ InFlight("executeScript"))
       /\ Logged("fail", "deleteAllCookies")
          => /\ ~Logged("issue", "executeScript")
             /\ result = Rejected("WebDriverError", <<"deleteAllCookies">>)

\* the cookie deletion failed on a session with cookies and storage
\* entries, and both are still there when the call has settled
C7_CookieFailureStopsClear ==
    /\ call.fn = "clearCookiesAndStorages"
    /\ pc = "done"
    /\ Logged("fail", "deleteAllCookies")
    /\ cookies
    /\ storage

\* C9: every attribute wait hands driver.wait the default timeout when the
\* caller's timeout is undefined, null or 0, and the caller's value
\* otherwise; the wait does not time out before that bound.
C9_DefaultTimeoutWhenFalsy ==
    call.fn \in AttributeWaits
    => /\ timeout = IF call.wait \in {Undefined, Null, Num(0)}
                    THEN DEFAULT_TIMEOUT
                    ELSE call.wait.v
       /\ TimedOut => elapsed - waitStart >= timeout

\* a wait called with timeout 0 timed out after the default
C9_ZeroTimeoutWaitsTheDefault ==
    /\ call.fn \in AttributeWaits
    /\ call.wait = Num(0)
    /\ TimedOut
    /\ timeout = DEFAULT_TIMEOUT

AllNodes == [i \in 1..Len(nodes) |-> i]

NodesWithText(text) ==
    SelectSeq(AllNodes, LAMBDA i : nodes[i] = text)

ClickDone == call.fn = "clickHiddenElement" /\ pc = "done"

C8_FirstOfTheMatchingElements ==
    (call.fn = "getFirstElementContainingText" /\ pc = "done")
    => LET matching ==
               FindElementsContainingText(nodes, call.textToMatch, 1) IN
       result = Fulfilled(IF matching = <<>>
                          THEN Undefined
                          ELSE Elem(matching[1]))

IssuedByHook(cmd) == \E i \in 1..Len(hookLog) : hookLog[i][1] = cmd

C11_StepsRunOnLiveSession ==
    hook = "steps" => SessionOpen

\* C12: whatever the teardown strategy, close() is never sent to a session
\* that was closed before, and when AfterAll has completed every session a
\* Before hook created has been closed exactly once and none is open.
C12_EachSessionClosedOnce ==
    /\ \A i \in 1..Len(sessions) : sessions[i].closes <= 1
    /\ hook \in {"end", "endFailed"}
       => \A i \in 1..Len(sessions) :
             /\ sessions[i].status # "open"
             /\ sessions[i].closes = 1

====
